---------------------------- MODULE Spec2Model ----------------------------
(***************************************************************************)
(* Canvas course/assignment importer: the paginated listing of             *)
(* canvas_api.py (list_courses, list_course_assignments), the course       *)
(* filter/projection (filter_courses_by_code) and the persistence layer    *)
(* and orchestrator of canvas_db.py (insert_courses, insert_assignments,   *)
(* populate_database_from_canvas).                                         *)
(*                                                                         *)
(* Three specifications share the module:                                  *)
(*   SpecPage   - one call of a paginated listing against an upstream      *)
(*   SpecFilter - one call of filter_courses_by_code                       *)
(*   SpecStore  - sequences of store calls and orchestrator runs           *)
(*                                                                         *)
(* Strings that the code takes apart (the Link header, URLs) are sequences *)
(* of tokens; Python's None is the string "None".                          *)
(***************************************************************************)
EXTENDS Integers, Sequences, FiniteSets, TLC

VARIABLES
    \* ---- pagination walker (canvas_api.py) ----
    server,      \* the upstream: page number -> [items, status, next, layout]
    call,        \* the listing call being made: [fn, args]
    url,         \* local `url` of the while loop
    all_items,   \* local `all_courses` / `all_assignments`
    requests,    \* every requests.get issued so far: <<[url, params], ...>>
    wpc,         \* "loop" | "returned" | "raised"
    \* ---- filter_courses_by_code (canvas_api.py) ----
    fcourses,    \* argument `courses`
    fcodes,      \* argument `course_codes`
    fresult,     \* [pc |-> "start"] or the call's outcome
    \* ---- store and orchestrator (canvas_db.py) ----
    courses,     \* committed rows of table courses
    assignments, \* committed rows of table assignments
    lastCall,    \* the most recent store call and how it ended
    persisted,   \* course codes handed to insert_courses calls that committed
    upstream,    \* what Canvas serves to the orchestrator
    run          \* orchestrator progress and the previous run's result

pageVars   == <<server, call, url, all_items, requests, wpc>>
filterVars == <<fcourses, fcodes, fresult>>
storeVars  == <<courses, assignments, lastCall, persisted, upstream, run>>
vars       == <<pageVars, filterVars, storeVars>>

None == "None"

\* Sequences over S of length at most n.
SeqsUpTo(S, n) == UNION {[1..k -> S] : k \in 0..n}

RECURSIVE Flatten(_)
Flatten(ss) == IF ss = <<>> THEN <<>> ELSE Head(ss) \o Flatten(Tail(ss))

-----------------------------------------------------------------------------
(***************************************************************************)
(* Python string operations used by the Link-header scan, over token       *)
(* sequences.                                                              *)
(***************************************************************************)

\* str.find(t): index (from 0) of the first occurrence of token t, or -1.
PyFind(s, t) ==
    IF \E i \in 1..Len(s) : s[i] = t
    THEN (CHOOSE i \in 1..Len(s) : s[i] = t /\ \A j \in 1..(i-1) : s[j] # t) - 1
    ELSE -1

\* s[a:b] for a >= 0 and any b (a negative b counts from the end).
PySlice(s, a, b) ==
    LET hi == IF b < 0 THEN (IF Len(s) + b < 0 THEN 0 ELSE Len(s) + b)
              ELSE (IF b > Len(s) THEN Len(s) ELSE b)
    IN  IF a >= hi THEN <<>> ELSE SubSeq(s, a + 1, hi)

\* str.split(","): the pieces between the "," tokens ("" splits to [""]).
RECURSIVE PySplit(_)
PySplit(s) ==
    LET k == PyFind(s, ",")
    IN  IF k = -1 THEN <<s>>
        ELSE <<SubSeq(s, 1, k)>> \o PySplit(SubSeq(s, k + 2, Len(s)))

\* 'rel="next"' in link
HasRelNext(link) == \E i \in 1..Len(link) : link[i] = "rel=\"next\""


-----------------------------------------------------------------------------
(***************************************************************************)
(* The upstream and the Link header it sends.                              *)
(***************************************************************************)

MaxPages    == 3   \* pages the upstream serves at most
MaxRequests == 5   \* requests after which a walk is no longer followed

AccessToken == "token"

\* CanvasAPI.__init__: base_url.rstrip("/") + "/api/v1"
BaseUrl == <<"https://ufl.instructure.com", "/api/v1">>

\* The calls made: the orchestrator's two, and two with other arguments.
Calls ==
    { [fn |-> "list_courses", course_id |-> None,
       enrollment_type |-> None, enrollment_state |-> None,
       exclude_blueprint_courses |-> None, include |-> <<>>,
       search_term |-> None, override_assignment_dates |-> None,
       bucket |-> None, order_by |-> None],
      [fn |-> "list_courses", course_id |-> None,
       enrollment_type |-> "student", enrollment_state |-> "",
       exclude_blueprint_courses |-> "False",
       include |-> <<"syllabus_body", "teachers">>,
       search_term |-> None, override_assignment_dates |-> None,
       bucket |-> None, order_by |-> None],
      [fn |-> "list_course_assignments", course_id |-> "523306",
       enrollment_type |-> None, enrollment_state |-> None,
       exclude_blueprint_courses |-> None,
       include |-> <<"submission", "all_dates">>,
       search_term |-> None, override_assignment_dates |-> "True",
       bucket |-> "future", order_by |-> "position"],
      [fn |-> "list_course_assignments", course_id |-> "523306",
       enrollment_type |-> None, enrollment_state |-> None,
       exclude_blueprint_courses |-> None, include |-> <<>>,
       search_term |-> "", override_assignment_dates |-> None,
       bucket |-> None, order_by |-> None] }

\* Python truthiness of an Optional[str].
Truthy(v) == v # None /\ v # ""

\* str(b).lower() of a bool.
LowerBool(b) == IF b = "True" THEN "true" ELSE "false"

\* The `params` dict a call builds, as a set of <<key, value>> pairs.
CourseParams(c) ==
       (IF Truthy(c.enrollment_type)
        THEN {<<"enrollment_type", <<c.enrollment_type>>>>} ELSE {})
  \cup (IF Truthy(c.enrollment_state)
        THEN {<<"enrollment_state", <<c.enrollment_state>>>>} ELSE {})
  \cup (IF c.exclude_blueprint_courses # None
        THEN {<<"exclude_blueprint_courses",
                <<LowerBool(c.exclude_blueprint_courses)>>>>} ELSE {})
  \cup (IF c.include # <<>> THEN {<<"include[]", c.include>>} ELSE {})

AssignmentParams(c) ==
       (IF c.include # <<>> THEN {<<"include[]", c.include>>} ELSE {})
  \cup (IF Truthy(c.search_term)
        THEN {<<"search_term", <<c.search_term>>>>} ELSE {})
  \cup (IF c.override_assignment_dates # None
        THEN {<<"override_assignment_dates",
                <<LowerBool(c.override_assignment_dates)>>>>} ELSE {})
  \cup (IF Truthy(c.bucket) THEN {<<"bucket", <<c.bucket>>>>} ELSE {})
  \cup (IF Truthy(c.order_by) THEN {<<"order_by", <<c.order_by>>>>} ELSE {})

Params(c) ==
    IF c.fn = "list_courses" THEN CourseParams(c) ELSE AssignmentParams(c)

\* {**params, "access_token": self.access_token}
RequestParams(params) ==
    {kv \in params : kv[1] # "access_token"}
        \cup {<<"access_token", <<AccessToken>>>>}

\* The URL the loop starts from.
FirstUrl(c) ==
    IF c.fn = "list_courses" THEN BaseUrl \o <<"/courses">>
    ELSE BaseUrl \o <<"/courses/", c.course_id, "/assignments">>

\* The URL under which the upstream serves page j of a collection.
PageUrl(c, j) ==
    IF j = 1 THEN FirstUrl(c) ELSE FirstUrl(c) \o <<"?page=", ToString(j)>>

\* The page a URL addresses, 0 when the upstream knows no such URL.
PageOf(c, u) ==
    IF \E j \in 1..MaxPages : PageUrl(c, j) = u
    THEN CHOOSE j \in 1..MaxPages : PageUrl(c, j) = u
    ELSE 0

\* One <url>; rel="..." entry of a Link header.
LinkEntry(u, rel) == <<"<">> \o u \o <<">", ";", " ", rel>>

RECURSIVE JoinLinks(_)
JoinLinks(es) ==
    IF es = <<>> THEN <<>>
    ELSE IF Len(es) = 1 THEN es[1]
    ELSE es[1] \o <<",", " ">> \o JoinLinks(Tail(es))

\* The Link header of page p: absent (the code reads "") or a list of entries.
\* "bare" upstreams send the next entry alone, "canvas" ones send
\* current, next, first as Canvas does.
LinkHeader(c, p, page) ==
    LET nxt == IF page.next = 0 THEN <<>>
               ELSE <<LinkEntry(PageUrl(c, page.next), "rel=\"next\"")>>
    IN  IF page.layout = "bare" THEN JoinLinks(nxt)
        ELSE JoinLinks(<<LinkEntry(PageUrl(c, p), "rel=\"current\"")>>
                       \o nxt
                       \o <<LinkEntry(PageUrl(c, 1), "rel=\"first\"")>>)

PageItems == {<<>>, <<"a">>, <<"b", "a">>}

\* What the upstream may answer to the first request for page p.
Responses(p) ==
    [items : PageItems, status : {200, 500},
     next : 0..(IF p < MaxPages THEN p + 1 ELSE p),
     layout : {"bare", "canvas"}]

-----------------------------------------------------------------------------
(***************************************************************************)
(* The pagination loop of list_courses / list_course_assignments.          *)
(***************************************************************************)

\* next_link = None. A URL is only ever tested by `while url:`, which takes
\* None and the empty string alike, so both are the empty token sequence.
NoUrl == <<>>

\* links.split(","), first piece holding rel="next": link[find("<")+1:find(">")]
RECURSIVE ScanNext(_)
ScanNext(pieces) ==
    IF pieces = <<>> THEN NoUrl
    ELSE IF HasRelNext(Head(pieces))
         THEN PySlice(Head(pieces), PyFind(Head(pieces), "<") + 1,
                      PyFind(Head(pieces), ">"))
         ELSE ScanNext(Tail(pieces))

\* (mutant: the first entry is taken whatever its rel)
NextLinkFirstEntry(links) ==
    LET first == Head(PySplit(links))
    IN  PySlice(first, PyFind(first, "<") + 1, PyFind(first, ">"))
NextLink(links) == ScanNext(PySplit(links))

\* `while url:` (None and "" are both falsy)
UrlTruthy(u) == u # NoUrl

\* all_courses.extend(data)
\* (mutant: all_courses = data)
ExtendReplaces(acc, data) == data
Extend(acc, data) == acc \o data

InitPage ==
    /\ call \in Calls
    /\ server = <<>>
    /\ url = FirstUrl(call)
    /\ all_items = <<>>
    /\ requests = <<>>
    /\ wpc = "loop"

\* One iteration of the while loop: the request, raise_for_status, extend,
\* the Link scan and the assignment to url.
WalkStep ==
    /\ wpc = "loop"
    /\ Len(requests) < MaxRequests
    /\ requests' = Append(requests,
                     [url |-> url, params |-> RequestParams(Params(call))])
    /\ LET p == PageOf(call, url)
       IN  IF p = 0 \/ p > Len(server) + 1
           THEN \* no such resource: raise_for_status raises
                /\ wpc' = "raised"
                /\ UNCHANGED <<server, url, all_items>>
           ELSE \E resp \in (IF p <= Len(server) THEN {server[p]}
                             ELSE Responses(p)) :
                /\ server' = IF p <= Len(server) THEN server
                             ELSE Append(server, resp)
                /\ IF resp.status # 200
                   THEN /\ wpc' = "raised"
                        /\ UNCHANGED <<url, all_items>>
                   ELSE LET next_link == NextLink(LinkHeader(call, p, resp))
                        IN  /\ all_items' = Extend(all_items, resp.items)
                            /\ url' = next_link
                            /\ wpc' = IF UrlTruthy(next_link)
                                      THEN "loop" ELSE "returned"
    /\ UNCHANGED call

-----------------------------------------------------------------------------
(***************************************************************************)
(* filter_courses_by_code: the allow-list filter and the per-course        *)
(* projection.  A raw course is a function from the keys it has to values. *)
(***************************************************************************)

MaxCourses == 2   \* length of the `courses` argument at most
MaxAllow   == 2   \* length of the `course_codes` argument at most

CourseKeys == {"id", "name", "course_code", "start_at", "end_at", "teachers",
               "syllabus_body", "enrollment_term_id", "time_zone", "calendar"}

Restrict(f, S) == [k \in S |-> f[k]]

Has(d, k) == k \in DOMAIN d

FullTeacher == [id |-> "t9", display_name |-> "Prof", avatar_image_url |-> "img"]

\* A course as Canvas serves it with include=[syllabus_body, teachers].
FullCourse(id, code, title) ==
    [k \in CourseKeys |->
        CASE k = "id" -> id
          [] k = "name" -> title
          [] k = "course_code" -> code
          [] k = "start_at" -> "2025-01-06"
          [] k = "end_at" -> None
          [] k = "teachers" -> <<FullTeacher>>
          [] k = "syllabus_body" -> "<p>syllabus</p>"
          [] k = "enrollment_term_id" -> "term1"
          [] k = "time_zone" -> "America/New_York"
          [] k = "calendar" -> [ics |-> "https://ufl.instructure.com/c.ics"]]

OptionalKeys == {"teachers", "syllabus_body", "calendar"}
RequiredKeys == {"id", "name", "course_code"}

\* The key sets raw courses are missing.
Drops ==
    { {}, OptionalKeys, CourseKeys \ RequiredKeys,
      {"course_code"}, {"id"}, {"name"} }

RawBases ==
    { FullCourse("1", "SPN1131", "Spanish"),
      FullCourse("2", "MAT2023", "Math"),
      FullCourse("3", "spn1131", "Spanish (old)") }

RawCourses ==
    {Restrict(b, CourseKeys \ d) : b \in RawBases, d \in Drops}
    \cup { [FullCourse("1", "SPN1131", "Spanish") EXCEPT
              !["calendar"] = Restrict([ics |-> "x"], {})],
           [FullCourse("1", "SPN1131", "Spanish") EXCEPT
              !["teachers"] = <<Restrict(FullTeacher, {"id", "display_name"})>>] }

AllowCodes == {"SPN1131", "GEO3315"}

\* course['course_code'] in course_codes: == against each list element.
\* (mutant: the comparison ignores case)
CodeInLower(code, course_codes) ==
    LET Lower(c) == IF c = "SPN1131" THEN "spn1131" ELSE c
    IN  \E i \in 1..Len(course_codes) : Lower(course_codes[i]) = Lower(code)
CodeIn(code, course_codes) ==
    \E i \in 1..Len(course_codes) : course_codes[i] = code

\* The keys the dict display reads with course[...] / teacher[...], in
\* evaluation order; the first one missing is the KeyError raised.
SubscriptOrder ==
    <<"id", "name", "start_at", "end_at", "teachers", "course_code",
      "enrollment_term_id", "time_zone">>

TeacherKeys == <<"id", "display_name", "avatar_image_url">>

RECURSIVE FirstMissing(_, _)
FirstMissing(d, keys) ==
    IF keys = <<>> THEN None
    ELSE IF ~Has(d, Head(keys)) THEN Head(keys)
    ELSE FirstMissing(d, Tail(keys))

RECURSIVE TeachersMissing(_)
TeachersMissing(ts) ==
    IF ts = <<>> THEN None
    ELSE IF FirstMissing(Head(ts), TeacherKeys) # None
         THEN FirstMissing(Head(ts), TeacherKeys)
    ELSE TeachersMissing(Tail(ts))

\* The key whose subscript raises while relevant_info is built, or None.
ProjectionError(course) ==
    LET Step(k) ==
            IF k = "teachers"
            THEN (IF Has(course, "teachers")
                  THEN TeachersMissing(course["teachers"]) ELSE None)
            ELSE (IF Has(course, k) THEN None ELSE k)
        hits == {i \in 1..Len(SubscriptOrder) : Step(SubscriptOrder[i]) # None}
    IN  IF hits = {} THEN None
        ELSE Step(SubscriptOrder[CHOOSE i \in hits : \A j \in hits : i <= j])

\* relevant_info of a course whose subscripts all succeed.
Project(course) ==
    [id |-> course["id"],
     name |-> course["name"],
     start_at |-> course["start_at"],
     end_at |-> course["end_at"],
     teachers |-> IF Has(course, "teachers")
                  THEN [i \in 1..Len(course["teachers"]) |->
                          [id |-> course["teachers"][i]["id"],
                           display_name |-> course["teachers"][i]["display_name"],
                           avatar_image_url |->
                               course["teachers"][i]["avatar_image_url"]]]
                  ELSE <<>>,
     syllabus_body |-> IF Has(course, "syllabus_body")
                       THEN course["syllabus_body"] ELSE "",
     course_code |-> course["course_code"],
     enrollment_term_id |-> course["enrollment_term_id"],
     time_zone |-> course["time_zone"],
     calendar |-> IF Has(course, "calendar") /\ Has(course["calendar"], "ics")
                  THEN course["calendar"]["ics"] ELSE None]

\* The for loop: [pc, out, key] with pc "returned" (out = filtered_courses)
\* or "raised" (KeyError(key)).
RECURSIVE FilterLoop(_, _, _)
FilterLoop(cs, course_codes, out) ==
    IF cs = <<>> THEN [pc |-> "returned", out |-> out, key |-> None]
    ELSE LET course == Head(cs)
         IN  IF Has(course, "course_code")
                /\ CodeIn(course["course_code"], course_codes)
             THEN IF ProjectionError(course) # None
                  THEN [pc |-> "raised", out |-> <<>>,
                        key |-> ProjectionError(course)]
                  ELSE FilterLoop(Tail(cs), course_codes,
                                  Append(out, Project(course)))
             ELSE FilterLoop(Tail(cs), course_codes, out)

FilterCourses(cs, course_codes) == FilterLoop(cs, course_codes, <<>>)

InitFilter ==
    /\ fcourses \in SeqsUpTo(RawCourses, MaxCourses)
    /\ fcodes \in SeqsUpTo(AllowCodes, MaxAllow)
    /\ fresult = [pc |-> "start", out |-> <<>>, key |-> None]

FilterCall ==
    /\ fresult.pc = "start"
    /\ fresult' = FilterCourses(fcourses, fcodes)
    /\ UNCHANGED <<fcourses, fcodes>>

-----------------------------------------------------------------------------
(***************************************************************************)
(* The store: tables courses and assignments as sets of rows, and the two  *)
(* insert calls.  Each call runs its statements on a private copy of the   *)
(* tables (its transaction) and commits once after the loop; a call that   *)
(* raises never reaches connection.commit().                               *)
(***************************************************************************)

MaxBatch == 3   \* records per insert call at most

\* dict.get(key, default)
Get(d, k, default) == IF Has(d, k) THEN d[k] ELSE default

\* The parameter tuple of the INSERT INTO courses, as the row it would add.
CourseRow(course) ==
    [id |-> course["id"],
     name |-> course["name"],
     course_code |-> course["course_code"],
     start_at |-> Get(course, "start_at", None),
     end_at |-> Get(course, "end_at", None),
     syllabus_body |-> Get(course, "syllabus_body", ""),
     time_zone |-> Get(course, "time_zone", "")]

\* The parameter tuple of the INSERT INTO assignments.
AssignmentRow(a, course_id) ==
    LET submission == Get(a, "submission", Restrict([x |-> None], {}))
    IN  [id |-> a["id"],
         course_id |-> course_id,
         name |-> a["name"],
         description |-> Get(a, "description", None),
         due_at |-> Get(a, "due_at", None),
         points_possible |-> Get(a, "points_possible", None),
         grading_type |-> Get(a, "grading_type", None),
         html_url |-> Get(a, "html_url", None),
         submission_score |-> Get(submission, "score", None),
         submission_state |-> Get(submission, "workflow_state", None),
         submitted_at |-> Get(submission, "submitted_at", None)]

\* One cursor.execute of insert_courses on the transaction's view `rows`:
\* KeyError while the tuple is built; ON CONFLICT (course_code) DO NOTHING;
\* the primary key on id is no arbiter, a clash on it is an error.
\* (mutant: ON CONFLICT (course_code) DO UPDATE)
ExecCourseUpsert(rows, course) ==
    IF FirstMissing(course, <<"id", "name", "course_code">>) # None
    THEN [ok |-> FALSE, rows |-> rows, error |-> "KeyError"]
    ELSE IF \E r \in rows : r.course_code = course["course_code"]
    THEN [ok |-> TRUE,
          rows |-> {IF r.course_code = course["course_code"]
                    THEN CourseRow([course EXCEPT !["id"] = r.id]) ELSE r
                    : r \in rows},
          error |-> None]
    ELSE IF \E r \in rows : r.id = course["id"]
    THEN [ok |-> FALSE, rows |-> rows, error |-> "UniqueViolation"]
    ELSE [ok |-> TRUE, rows |-> rows \cup {CourseRow(course)}, error |-> None]
\* (mutant: the arbiter is the primary key, ON CONFLICT (id))
ExecCourseConflictOnId(rows, course) ==
    IF FirstMissing(course, <<"id", "name", "course_code">>) # None
    THEN [ok |-> FALSE, rows |-> rows, error |-> "KeyError"]
    ELSE IF \E r \in rows : r.id = course["id"]
    THEN [ok |-> TRUE, rows |-> rows, error |-> None]
    ELSE IF \E r \in rows : r.course_code = course["course_code"]
    THEN [ok |-> FALSE, rows |-> rows, error |-> "UniqueViolation"]
    ELSE [ok |-> TRUE, rows |-> rows \cup {CourseRow(course)}, error |-> None]
ExecCourse(rows, course) ==
    IF FirstMissing(course, <<"id", "name", "course_code">>) # None
    THEN [ok |-> FALSE, rows |-> rows, error |-> "KeyError"]
    ELSE IF \E r \in rows : r.course_code = course["course_code"]
    THEN [ok |-> TRUE, rows |-> rows, error |-> None]
    ELSE IF \E r \in rows : r.id = course["id"]
    THEN [ok |-> FALSE, rows |-> rows, error |-> "UniqueViolation"]
    ELSE [ok |-> TRUE, rows |-> rows \cup {CourseRow(course)}, error |-> None]

\* One cursor.execute of insert_assignments: ON CONFLICT (id) DO NOTHING;
\* a row that is inserted must reference a row of courses.
\* (mutant: no ON CONFLICT clause)
ExecAssignmentNoConflictClause(crows, rows, a, course_id) ==
    IF FirstMissing(a, <<"id", "name">>) # None
    THEN [ok |-> FALSE, rows |-> rows, error |-> "KeyError"]
    ELSE IF \E r \in rows : r.id = a["id"]
    THEN [ok |-> FALSE, rows |-> rows, error |-> "UniqueViolation"]
    ELSE IF ~\E c \in crows : c.id = course_id
    THEN [ok |-> FALSE, rows |-> rows, error |-> "ForeignKeyViolation"]
    ELSE [ok |-> TRUE, rows |-> rows \cup {AssignmentRow(a, course_id)},
          error |-> None]
\* (mutant: no FOREIGN KEY constraint)
ExecAssignmentUnchecked(crows, rows, a, course_id) ==
    IF FirstMissing(a, <<"id", "name">>) # None
    THEN [ok |-> FALSE, rows |-> rows, error |-> "KeyError"]
    ELSE IF \E r \in rows : r.id = a["id"]
    THEN [ok |-> TRUE, rows |-> rows, error |-> None]
    ELSE [ok |-> TRUE, rows |-> rows \cup {AssignmentRow(a, course_id)},
          error |-> None]
ExecAssignment(crows, rows, a, course_id) ==
    IF FirstMissing(a, <<"id", "name">>) # None
    THEN [ok |-> FALSE, rows |-> rows, error |-> "KeyError"]
    ELSE IF \E r \in rows : r.id = a["id"]
    THEN [ok |-> TRUE, rows |-> rows, error |-> None]
    ELSE IF ~\E c \in crows : c.id = course_id
    THEN [ok |-> FALSE, rows |-> rows, error |-> "ForeignKeyViolation"]
    ELSE [ok |-> TRUE, rows |-> rows \cup {AssignmentRow(a, course_id)},
          error |-> None]

\* The for loop of insert_courses inside its transaction: the rows as the
\* transaction sees them when the loop ends or a statement raises.
RECURSIVE RunCourses(_, _)
RunCourses(rows, batch) ==
    IF batch = <<>> THEN [ok |-> TRUE, rows |-> rows, error |-> None]
    ELSE LET r == ExecCourse(rows, Head(batch))
         IN  IF r.ok THEN RunCourses(r.rows, Tail(batch)) ELSE r

RECURSIVE RunAssignments(_, _, _, _)
RunAssignments(crows, rows, batch, course_id) ==
    IF batch = <<>> THEN [ok |-> TRUE, rows |-> rows, error |-> None]
    ELSE LET r == ExecAssignment(crows, rows, Head(batch), course_id)
         IN  IF r.ok THEN RunAssignments(crows, r.rows, Tail(batch), course_id)
             ELSE r

\* connection.commit() after the loop; an exception leaves the function
\* before it, and the transaction's work is discarded with the connection.
\* (mutant: a commit after every statement)
CommitEachRow(before, r) == r.rows
Commit(before, r) == IF r.ok THEN r.rows ELSE before

NoCall == [op |-> "none", batch |-> <<>>, course_id |-> None,
           ok |-> TRUE, error |-> None]

CodesOf(batch) ==
    {batch[i]["course_code"] : i \in {j \in 1..Len(batch) :
                                        Has(batch[j], "course_code")}}

\* insert_courses(batch) as a relation on the store.
DoInsertCourses(batch) ==
    LET r == RunCourses(courses, batch)
    IN  /\ courses' = Commit(courses, r)
        /\ lastCall' = [op |-> "insert_courses", batch |-> batch,
                        course_id |-> None, ok |-> r.ok, error |-> r.error]
        /\ persisted' = IF r.ok THEN persisted \cup CodesOf(batch)
                        ELSE persisted
        /\ UNCHANGED assignments

\* insert_assignments(batch, course_id) as a relation on the store.
DoInsertAssignments(batch, course_id) ==
    LET r == RunAssignments(courses, assignments, batch, course_id)
    IN  /\ assignments' = Commit(assignments, r)
        /\ lastCall' = [op |-> "insert_assignments", batch |-> batch,
                        course_id |-> course_id, ok |-> r.ok,
                        error |-> r.error]
        /\ UNCHANGED <<courses, persisted>>

-----------------------------------------------------------------------------
(***************************************************************************)
(* The orchestrator, populate_database_from_canvas, one action per         *)
(* statement group, and the callers' direct insert calls.                  *)
(***************************************************************************)

MaxUpstream == 2   \* courses Canvas lists at most

\* current_course_codes
CurrentCourseCodes ==
    <<"SPN1131", "GEO3315", "GEO3502", "GIS4123C/GIS6106C", "GEO4930">>

\* A course as canvas.list_courses() (no include) returns it.
UpCourse(id, code, title) ==
    Restrict(FullCourse(id, code, title), CourseKeys \ {"teachers", "syllabus_body"})

\* Two allow-listed courses, a second identifier under the first one's code,
\* a course outside the allow-list, and one served without its term.
UpCourses ==
    { UpCourse("1", "SPN1131", "Spanish"), UpCourse("2", "GEO3315", "Geo"),
      UpCourse("2", "SPN1131", "Spanish"), UpCourse("1", "MAT2023", "Math"),
      Restrict(UpCourse("2", "GEO3315", "Geo"),
               DOMAIN UpCourse("2", "GEO3315", "Geo") \ {"enrollment_term_id"}) }

\* Dicts handed to insert_courses directly: projector output, a dict with
\* the three subscripted keys only, and one without 'name'.
CourseDicts ==
    { Project(UpCourse("1", "SPN1131", "Spanish")),
      Project(UpCourse("2", "GEO3315", "Geo")),
      Project(UpCourse("2", "SPN1131", "Spanish")),
      [id |-> "1", name |-> "Spanish (renamed)", course_code |-> "SPN1131"],
      [id |-> "2", course_code |-> "GEO3315"] }

Assignment(id, title) ==
    [id |-> id, name |-> title, description |-> "<p>do it</p>",
     due_at |-> "2025-02-01", points_possible |-> "10.0",
     grading_type |-> "points", html_url |-> "https://ufl.instructure.com/a"]

Graded(a) ==
    [k \in DOMAIN a \cup {"submission"} |->
        IF k = "submission"
        THEN [score |-> "9.0", workflow_state |-> "graded",
              submitted_at |-> "2025-01-30"]
        ELSE a[k]]

AssignmentDicts ==
    { Assignment("10", "HW1"), Graded(Assignment("10", "HW1")),
      [id |-> "11", name |-> "HW2"], [id |-> "11"] }

CourseIds == {"1", "2"}

\* What a listing call hands back to the orchestrator: the items of all its
\* pages, or the exception it raised.
Raised == [asked |-> TRUE, ok |-> FALSE, items |-> <<>>]
Returned(items) == [asked |-> TRUE, ok |-> TRUE, items |-> items]

CourseListings ==
    {Raised} \cup {Returned(l) : l \in SeqsUpTo(UpCourses, MaxUpstream)}

AssignmentListings ==
    { Raised, Returned(<<>>), Returned(<<Assignment("10", "HW1")>>),
      Returned(<<Graded(Assignment("10", "HW1")), [id |-> "11", name |-> "HW2"]>>) }

\* A listing not requested yet.
NoListing == [asked |-> FALSE, ok |-> FALSE, items |-> <<>>]

NoAssignmentListings == [c \in CourseIds |-> NoListing]

NoUpstream == [courses |-> NoListing, assignments |-> NoAssignmentListings]

NoPrev == [pc |-> "none", courses |-> {}, assignments |-> {}]

IdleRun == [pc |-> "idle", cur |-> <<>>, k |-> 0, fetched |-> <<>>,
            failedAt |-> 0, prev |-> NoPrev]

InitStore ==
    /\ courses = {}
    /\ assignments = {}
    /\ lastCall = NoCall
    /\ persisted = {}
    /\ upstream = NoUpstream
    /\ run = IdleRun

\* No call is in progress and the last one's outcome has been taken.
Idle == lastCall = NoCall /\ run.pc = "idle"

\* A caller's insert_courses(batch).
InsertCoursesCall ==
    /\ Idle
    /\ \E batch \in SeqsUpTo(CourseDicts, MaxBatch) : DoInsertCourses(batch)
    /\ UNCHANGED <<upstream, run>>

\* A caller's insert_assignments(batch, course_id).
InsertAssignmentsCall ==
    /\ Idle
    /\ \E batch \in SeqsUpTo(AssignmentDicts, MaxBatch), course_id \in CourseIds :
            DoInsertAssignments(batch, course_id)
    /\ UNCHANGED <<upstream, run>>

\* The caller (the __main__ block) goes on after a call returned or raised.
Proceed ==
    /\ ~Idle
    /\ run.pc # "running"
    /\ lastCall' = NoCall
    /\ run' = IdleRun
    /\ upstream' = NoUpstream
    /\ UNCHANGED <<courses, assignments, persisted>>

\* An exception leaves populate_database_from_canvas: nothing catches it.
\* (mutant: the loop body is wrapped in try/except and goes on)
ContinueOnError(r, i) ==
    [r EXCEPT !.failedAt = i, !.k = i,
              !.pc = IF i = Len(r.cur) THEN "done" ELSE "running"]
Abort(r, i) == [r EXCEPT !.pc = "raised", !.failedAt = i]

\* Lines 130-132 against listing `l`: list_courses, filter, insert_courses.
Begin(l, prev) ==
    LET f == FilterCourses(l.items, CurrentCourseCodes)
        fresh == [IdleRun EXCEPT !.prev = prev]
    IN  IF ~l.ok \/ f.pc = "raised"
        THEN /\ run' = [fresh EXCEPT !.pc = "raised"]
             /\ lastCall' = NoCall
             /\ UNCHANGED <<courses, assignments, persisted>>
        ELSE /\ DoInsertCourses(f.out)
             /\ run' = IF ~RunCourses(courses, f.out).ok
                       THEN [fresh EXCEPT !.pc = "raised", !.cur = f.out]
                       ELSE [fresh EXCEPT !.cur = f.out,
                                !.pc = IF f.out = <<>> THEN "done" ELSE "running"]

\* populate_database_from_canvas() is called; Canvas serves any dataset.
PopulateStart ==
    /\ Idle
    /\ \E l \in CourseListings :
         /\ upstream' = [courses |-> l, assignments |-> NoAssignmentListings]
         /\ Begin(l, NoPrev)

\* populate_database_from_canvas() is called again right after a run, and
\* Canvas serves what it served to that run.
PopulateAgain ==
    /\ run.pc \in {"done", "raised"}
    /\ upstream.courses.asked
    /\ UNCHANGED upstream
    /\ Begin(upstream.courses,
             [pc |-> run.pc, courses |-> courses, assignments |-> assignments])

\* One iteration of the for loop: list_course_assignments, insert_assignments.
PopulateCourse ==
    /\ run.pc = "running"
    /\ LET i == run.k + 1
           course_id == run.cur[i]["id"]
           asked == [run EXCEPT !.fetched = Append(run.fetched, course_id)]
       IN  \E l \in (IF upstream.assignments[course_id].asked
                     THEN {upstream.assignments[course_id]}
                     ELSE AssignmentListings) :
             /\ upstream' = [upstream EXCEPT !.assignments[course_id] = l]
             /\ IF ~l.ok
                THEN /\ run' = Abort(asked, i)
                     /\ lastCall' = NoCall
                     /\ UNCHANGED <<courses, assignments, persisted>>
                ELSE /\ DoInsertAssignments(l.items, course_id)
                     /\ run' = IF RunAssignments(courses, assignments,
                                                 l.items, course_id).ok
                               THEN [asked EXCEPT !.k = i,
                                       !.pc = IF i = Len(run.cur)
                                              THEN "done" ELSE "running"]
                               ELSE Abort(asked, i)

-----------------------------------------------------------------------------
InitPageIdle ==
    /\ call \in {c \in Calls : c.fn = "list_courses" /\ c.include = <<>>}
    /\ server = <<>>
    /\ url = NoUrl
    /\ all_items = <<>>
    /\ requests = <<>>
    /\ wpc = "idle"

InitFilterIdle ==
    /\ fcourses = <<>>
    /\ fcodes = <<>>
    /\ fresult = [pc |-> "idle", out |-> <<>>, key |-> None]

NextPage == WalkStep /\ UNCHANGED <<filterVars, storeVars>>

NextFilter == FilterCall /\ UNCHANGED <<pageVars, storeVars>>

NextStore ==
    \/ InsertCoursesCall /\ UNCHANGED <<pageVars, filterVars>>
    \/ InsertAssignmentsCall /\ UNCHANGED <<pageVars, filterVars>>
    \/ PopulateStart /\ UNCHANGED <<pageVars, filterVars>>
    \/ PopulateAgain /\ UNCHANGED <<pageVars, filterVars>>
    \/ PopulateCourse /\ UNCHANGED <<pageVars, filterVars>>
    \/ Proceed /\ UNCHANGED <<pageVars, filterVars>>

PageInit   == InitPage /\ InitFilterIdle /\ InitStore
FilterInit == InitPageIdle /\ InitFilter /\ InitStore
StoreInit  == InitPageIdle /\ InitFilterIdle /\ InitStore

SpecPage   == PageInit /\ [][NextPage]_vars
SpecFilter == FilterInit /\ [][NextFilter]_vars
SpecStore  == StoreInit /\ [][NextStore]_vars

-----------------------------------------------------------------------------
(***************************************************************************)
(* Pagination claims (SpecPage).  The upstream's pages are numbered in the *)
(* order the walk first reaches them, so server[1..n] is the chain walked. *)
(***************************************************************************)

ServedItems == Flatten([p \in 1..Len(server) |-> server[p].items])

\* Some page that answered 200 advertises itself or an earlier page as next.
Cyclic ==
    \E p \in 1..Len(server) :
        server[p].status = 200 /\ server[p].next \in 1..p

\* The page the latest request addressed (0: none the upstream knows).
LastPage ==
    IF requests = <<>> THEN 0 ELSE PageOf(call, requests[Len(requests)].url)

\* C1: when a listing returns, the upstream served a chain of n pages (page
\* i advertising page i+1, the last advertising none), the result is the
\* concatenation of the n pages' items in page order, exactly n requests
\* were sent, the i-th to page i's URL, and every request sent carries all
\* filter parameters of the call and the access_token.
C1_Concatenation ==
    /\ \A i \in 1..Len(requests) :
          /\ Params(call) \subseteq requests[i].params
          /\ <<"access_token", <<AccessToken>>>> \in requests[i].params
    /\ wpc = "returned" =>
          /\ Len(server) >= 1
          /\ \A p \in 1..Len(server) :
                /\ server[p].status = 200
                /\ server[p].next = IF p < Len(server) THEN p + 1 ELSE 0
          /\ all_items = ServedItems
          /\ Len(requests) = Len(server)
          /\ \A i \in 1..Len(requests) : requests[i].url = PageUrl(call, i)

\* C1 witness: a three-page listing with filter parameters returned items,
\* one page sending its next link among other entries.
C1_Witness ==
    /\ wpc = "returned"
    /\ Len(server) = 3
    /\ Params(call) # {}
    /\ server[1].items = <<"b", "a">> /\ server[2].items = <<>>
    /\ server[3].items = <<"a">>
    /\ server[1].layout = "canvas" /\ server[2].layout = "bare"

\* C2: the loop ends exactly on a successful response without a next link
\* (returned) or on a failing request (raised): a returned walk made one
\* request per page of an acyclic chain whose last page advertises no next;
\* a raised walk's last request failed; a walk still looping got a 200 with
\* a next link and is about to request it; an acyclic upstream gets one
\* request per page; once the next links form a cycle the walk has neither
\* returned nor raised, however many requests it has made.
C2_Termination ==
    LET n == Len(server)
    IN  /\ wpc = "returned" =>
              /\ n >= 1 /\ Len(requests) = n /\ ~Cyclic
              /\ server[n].status = 200 /\ server[n].next = 0
        /\ wpc = "raised" =>
              /\ LastPage \in 1..n
              /\ server[LastPage].status # 200
        /\ (wpc = "loop" /\ requests # <<>>) =>
              /\ LastPage \in 1..n
              /\ server[LastPage].status = 200
              /\ server[LastPage].next # 0
              /\ url = PageUrl(call, server[LastPage].next)
        /\ ~Cyclic => Len(requests) = n
        /\ Cyclic => wpc = "loop"

\* C2 witness: a cyclic upstream of two pages has been asked MaxRequests
\* times and the walk is still looping.
C2_Witness ==
    /\ Cyclic
    /\ Len(server) = 2
    /\ Len(requests) = MaxRequests
    /\ wpc = "loop"

-----------------------------------------------------------------------------
(***************************************************************************)
(* Filter and projection claims (SpecFilter).                              *)
(***************************************************************************)

\* A raw course with every key the projection subscripts.
WellFormedCourse(c) ==
    /\ {"id", "name", "course_code", "start_at", "end_at",
        "enrollment_term_id", "time_zone"} \subseteq DOMAIN c
    /\ Has(c, "teachers") =>
          \A i \in 1..Len(c["teachers"]) :
              {"id", "display_name", "avatar_image_url"}
                  \subseteq DOMAIN c["teachers"][i]

AllowSet == {fcodes[i] : i \in 1..Len(fcodes)}

\* C6 (as claimed): a course holding the three required keys only and an
\* allow-listed code is projected with defaults and without an exception;
\* a course missing a required key makes the call raise.
C6_ProjectorDefaults ==
    fresult.pc \in {"returned", "raised"} =>
        /\ (/\ fcourses # <<>>
            /\ \A i \in 1..Len(fcourses) :
                  /\ DOMAIN fcourses[i] = RequiredKeys
                  /\ fcourses[i]["course_code"] \in AllowSet)
           => /\ fresult.pc = "returned"
              /\ Len(fresult.out) = Len(fcourses)
              /\ \A i \in 1..Len(fresult.out) :
                    /\ fresult.out[i].teachers = <<>>
                    /\ fresult.out[i].syllabus_body = ""
                    /\ fresult.out[i].calendar = None
                    /\ fresult.out[i].start_at = None
                    /\ fresult.out[i].end_at = None
        /\ (\E i \in 1..Len(fcourses) : ~(RequiredKeys \subseteq DOMAIN fcourses[i]))
           => fresult.pc = "raised"

\* C7: on well-formed courses the call returns, and its output is, in input
\* order and multiplicity, the projection of exactly the courses whose
\* course_code equals an allow-list entry.
C7_FilterExact ==
    (/\ fresult.pc \in {"returned", "raised"}
     /\ \A i \in 1..Len(fcourses) : WellFormedCourse(fcourses[i]))
    => LET InAllow(c) == c["course_code"] \in AllowSet
           keep == SelectSeq(fcourses, InAllow)
       IN  /\ fresult.pc = "returned"
           /\ Len(fresult.out) = Len(keep)
           /\ \A i \in 1..Len(keep) :
                 /\ fresult.out[i].id = keep[i]["id"]
                 /\ fresult.out[i].name = keep[i]["name"]
                 /\ fresult.out[i].course_code = keep[i]["course_code"]
                 /\ fresult.out[i].course_code \in AllowSet

\* C7 witness: of two well-formed courses whose codes differ in case only,
\* the allow-listed one alone came out.
C7_Witness ==
    /\ fresult.pc = "returned"
    /\ Len(fcourses) = 2
    /\ \A i \in 1..2 : WellFormedCourse(fcourses[i])
    /\ fcourses[1]["course_code"] = "spn1131"
    /\ fcourses[2]["course_code"] = "SPN1131"
    /\ fcodes = <<"GEO3315", "SPN1131">>
    /\ Len(fresult.out) = 1
    /\ fresult.out[1].id = fcourses[2]["id"]

-----------------------------------------------------------------------------
(***************************************************************************)
(* Store and orchestrator claims (SpecStore).                              *)
(***************************************************************************)

CourseCodes == {r.course_code : r \in courses}

HasKeys(batch, keys) ==
    \A i \in 1..Len(batch) : FirstMissing(batch[i], keys) = None

CourseKeys3 == <<"id", "name", "course_code">>

\* Record i of `batch` brings a course code that neither `rows` nor an
\* earlier record of the batch holds.
NewCode(rows, batch, i) ==
    /\ \A r \in rows : r.course_code # batch[i]["course_code"]
    /\ \A j \in 1..(i-1) : batch[j]["course_code"] # batch[i]["course_code"]

\* Some record with a new code carries an identifier that `rows` or an
\* earlier record with a new code already uses.
IdClash(rows, batch) ==
    \E i \in 1..Len(batch) :
        /\ NewCode(rows, batch, i)
        /\ \/ \E r \in rows : r.id = batch[i]["id"]
           \/ \E j \in 1..(i-1) :
                NewCode(rows, batch, j) /\ batch[j]["id"] = batch[i]["id"]

\* C3 (as claimed): an insert_courses call whose records hold their keys
\* never fails and leaves every one of its course codes stored, whatever
\* the identifiers are.
C3_AnyIdentifiers ==
    (lastCall.op = "insert_courses" /\ HasKeys(lastCall.batch, CourseKeys3))
    => /\ lastCall.ok
       /\ CodesOf(lastCall.batch) \subseteq CourseCodes

\* C3 (amended): the rows of courses are one per course code of the calls
\* that committed (the same code twice is one row, two codes are two rows),
\* and a call whose records hold their keys fails exactly when a record
\* with a code not yet stored carries an identifier already stored; it then
\* fails with a unique violation and persists nothing.
C3_RowsPerCode ==
    [][ /\ CourseCodes' = persisted'
        /\ Cardinality(courses') = Cardinality(persisted')
        /\ (lastCall'.op = "insert_courses"
            /\ HasKeys(lastCall'.batch, CourseKeys3))
           => /\ lastCall'.ok <=> ~IdClash(courses, lastCall'.batch)
              /\ ~lastCall'.ok =>
                    /\ lastCall'.error = "UniqueViolation"
                    /\ courses' = courses
              /\ lastCall'.ok => CodesOf(lastCall'.batch) \subseteq CourseCodes'
      ]_vars

\* C3 witness: a call brought one code twice, under two identifiers and
\* names, and a new code; it committed and there are two rows.
C3_Witness ==
    /\ lastCall.op = "insert_courses" /\ lastCall.ok
    /\ Len(lastCall.batch) = 3
    /\ lastCall.batch[1]["course_code"] = lastCall.batch[2]["course_code"]
    /\ lastCall.batch[1]["id"] # lastCall.batch[2]["id"]
    /\ lastCall.batch[3]["course_code"] # lastCall.batch[1]["course_code"]
    /\ Cardinality(courses) = 2

\* C4: a run that directly follows a run against the same upstream data
\* never changes a table, and it ends as that run ended: without error if
\* that run completed without error.
C4_RerunIdempotent ==
    run.prev.pc # "none" =>
        /\ courses = run.prev.courses
        /\ assignments = run.prev.assignments
        /\ run.pc \in {"running", run.prev.pc}

\* C4 witness: the second of two completed runs over two courses, with
\* assignments stored for both.
C4_Witness ==
    /\ run.prev.pc = "done" /\ run.pc = "done"
    /\ Len(run.cur) = 2
    /\ Cardinality(courses) = 2
    /\ \A c \in courses : \E a \in assignments : a.course_id = c.id

\* C5: no step changes or deletes a row: every row of either table is there
\* unchanged afterwards, and a row that appears has a course code and an
\* identifier (resp. an assignment identifier) that no row had before.
C5_NeverUpdates ==
    [][ /\ courses \subseteq courses'
        /\ assignments \subseteq assignments'
        /\ \A r \in courses' \ courses :
              \A q \in courses : q.course_code # r.course_code /\ q.id # r.id
        /\ \A a \in assignments' \ assignments :
              \A q \in assignments : q.id # a.id
      ]_vars

\* C5 witness: insert_courses was handed one course whose code is stored
\* under another name, committed, and the stored name is still the old one.
C5_Witness ==
    /\ lastCall.op = "insert_courses" /\ lastCall.ok
    /\ Len(lastCall.batch) = 1
    /\ \E r \in courses :
          /\ r.course_code = lastCall.batch[1]["course_code"]
          /\ r.name # lastCall.batch[1]["name"]

OwnerMissing(course_id) == ~\E c \in courses : c.id = course_id

ReferentialIntegrity ==
    \A a \in assignments : \E c \in courses : c.id = a.course_id

\* C8 (as claimed): every assignment row references a course row, and an
\* insert_assignments call for a course_id without a course row fails with
\* the store's foreign-key error.
C8_AlwaysFails ==
    /\ ReferentialIntegrity
    /\ (lastCall.op = "insert_assignments" /\ OwnerMissing(lastCall.course_id))
       => (~lastCall.ok /\ lastCall.error = "ForeignKeyViolation")

\* C8 (amended): every assignment row references a course row; an
\* insert_assignments call for a course_id without a course row adds no
\* row; it fails exactly when its batch holds a record that lacks a key or
\* whose identifier is not stored yet, with the store's foreign-key error
\* when the records hold their keys; an empty batch, or one whose
\* identifiers are all stored already, returns normally.
C8_Referential ==
    [][ /\ ReferentialIntegrity'
        /\ (lastCall'.op = "insert_assignments"
            /\ OwnerMissing(lastCall'.course_id))
           => LET batch == lastCall'.batch
              IN  /\ assignments' = assignments
                  /\ lastCall'.ok <=>
                        \A i \in 1..Len(batch) :
                            /\ FirstMissing(batch[i], <<"id", "name">>) = None
                            /\ \E q \in assignments : q.id = batch[i]["id"]
                  /\ (~lastCall'.ok /\ HasKeys(batch, <<"id", "name">>))
                        => lastCall'.error = "ForeignKeyViolation"
      ]_vars

\* C8 witness: in an orchestrator run the second course was skipped by
\* insert_courses (its code is stored under the first course's identifier),
\* and insert_assignments for it failed on the foreign key.
C8_Witness ==
    /\ run.pc = "raised" /\ run.failedAt = 2
    /\ run.cur[2]["course_code"] \in CourseCodes
    /\ OwnerMissing(run.cur[2]["id"])
    /\ lastCall.op = "insert_assignments"
    /\ lastCall.course_id = run.cur[2]["id"]
    /\ lastCall.error = "ForeignKeyViolation"
    /\ assignments # {}

\* C9: once the fetch or insert for the k-th filtered course has raised,
\* the run has ended with the error; assignments were requested for the
\* courses 1..k and no other; the failing insert, if any, was the last store
\* call; every filtered course's code is stored and every assignment
\* served for the courses 1..k-1 is stored.
C9_AbortsOnFailure ==
    run.failedAt > 0 =>
        LET k == run.failedAt
        IN  /\ run.pc = "raised"
            /\ k <= Len(run.cur)
            /\ Len(run.fetched) = k
            /\ \A i \in 1..k : run.fetched[i] = run.cur[i]["id"]
            /\ \/ lastCall = NoCall
               \/ /\ lastCall.op = "insert_assignments" /\ ~lastCall.ok
                  /\ lastCall.course_id = run.cur[k]["id"]
            /\ \A i \in 1..Len(run.cur) : run.cur[i]["course_code"] \in CourseCodes
            /\ \A i \in 1..(k-1) :
                  LET served == upstream.assignments[run.cur[i]["id"]].items
                  IN  \A j \in 1..Len(served) :
                         \E a \in assignments : a.id = served[j]["id"]

\* C9 witness: the fetch for the second of two courses raised; the first
\* course's assignments are stored, none for the second.
C9_Witness ==
    /\ run.failedAt = 2 /\ Len(run.cur) = 2
    /\ lastCall = NoCall
    /\ Cardinality(courses) = 2
    /\ \E a \in assignments : a.course_id = run.cur[1]["id"]
    /\ ~\E a \in assignments : a.course_id = run.cur[2]["id"]

\* The rows a committed batch adds: one per record that is the first of
\* the batch with its key and whose key no row held.
AddedCourses(rows, batch) ==
    {CourseRow(batch[i]) : i \in {j \in 1..Len(batch) : NewCode(rows, batch, j)}}

AddedAssignments(rows, batch, course_id) ==
    {AssignmentRow(batch[i], course_id) :
        i \in {j \in 1..Len(batch) :
                 /\ \A q \in rows : q.id # batch[j]["id"]
                 /\ \A h \in 1..(j-1) : batch[h]["id"] # batch[j]["id"]}}

\* C10: a call that raises leaves both tables exactly as they were; a call
\* that returns has added, in that one step, the rows of all its records
\* whose key was not stored, and nothing else.
C10_OneTransaction ==
    [][ lastCall'.op # "none" =>
          /\ ~lastCall'.ok => (courses' = courses /\ assignments' = assignments)
          /\ (lastCall'.ok /\ lastCall'.op = "insert_courses") =>
                /\ courses' = courses \cup AddedCourses(courses, lastCall'.batch)
                /\ assignments' = assignments
          /\ (lastCall'.ok /\ lastCall'.op = "insert_assignments") =>
                /\ assignments' = assignments \cup
                       AddedAssignments(assignments, lastCall'.batch,
                                        lastCall'.course_id)
                /\ courses' = courses
      ]_vars

\* C10 witness: a call's first record was new and well-formed, its second
\* raised, and the first record's row is not in the table.
C10_Witness ==
    /\ lastCall.op = "insert_courses" /\ ~lastCall.ok
    /\ Len(lastCall.batch) = 2
    /\ FirstMissing(lastCall.batch[1], CourseKeys3) = None
    /\ lastCall.batch[1]["course_code"] \notin CourseCodes
    /\ \A r \in courses : r.id # lastCall.batch[1]["id"]

=============================================================================
